---- MODULE Spec2Model ----
(***************************************************************************)
(* Model of run_multidimensional_clusters.py: a command-line script that   *)
(* loads a vote matrix, projects it to two dimensions with PCA, sweeps     *)
(* k-means over k = 2..9 on both representations recording silhouette      *)
(* scores, selects the best k of each, re-clusters with it, prints the     *)
(* cluster sizes and renders two charts.                                   *)
(*                                                                         *)
(* The numeric library (PCA, KMeans, silhouette_score, numpy) is outside   *)
(* the script.  It is modelled by what its calls accept and return:        *)
(*   - PCA(n_components=2).fit_transform needs 2 <= min(rows, columns) and *)
(*     returns rows x 2; with svd_solver left at 'auto' and random_state   *)
(*     left at None it uses the randomized solver, seeded from the         *)
(*     process's entropy, on inputs with a dimension above 500;            *)
(*   - KMeans(n_clusters=k) needs k <= rows; it leaves no cluster empty    *)
(*     unless the data has fewer distinct rows than k, in which case it    *)
(*     finds one cluster per distinct row;                                 *)
(*   - silhouette_score needs 2 <= number of labels <= rows - 1 and        *)
(*     returns a value in [-1, 1] that depends on the partition only;      *)
(*   - the result of KMeans is a function of (data, k, random_state): it   *)
(*     is unknown but fixed, so it is revealed the first time it is        *)
(*     observed (lib) and read back afterwards.                            *)
(* A matrix is represented by its shape and its number of distinct rows,   *)
(* the only things the script's control flow depends on; duplicate rows    *)
(* are copies of one row.  Elapsed times are left out of the printed       *)
(* lines.                                                                  *)
(***************************************************************************)
EXTENDS Integers, Sequences, FiniteSets, TLC

\* ------------------------------------------------------------- bounds
MaxArgs == 2     \* command-line arguments after the program name: 0..MaxArgs
MaxN == 10       \* rows of the vote matrix: 1..MaxN, or Large
MaxM == 2        \* columns of the vote matrix: 1..MaxM, or Large
MaxDistinct == 3 \* distinct rows of the vote matrix: 1..MaxDistinct, or all rows

\* ------------------------------------------------- program constants
KStart == 2            \* range(2, 10)
KStop == 10            \* range(2, 10)
random_state == 42     \* KMeans(n_clusters=k, random_state=42)
n_components == 2      \* PCA(n_components=2)
ExpectedArgv == 2      \* len(sys.argv) != 2
PCAExactMax == 500     \* PCA(svd_solver='auto'): exact solver up to this size

VARIABLES
    argc,                      \* number of arguments after the program name
    file,                      \* what the path names: a matrix or nothing loadable
    run,                       \* 1: first run, 2: second run on the same input
    pc,                        \* position of the script
    exit_status,               \* -1 while running
    err,                       \* kind of the uncaught failure, "" if none
    loads,                     \* number of load_vote_matrix calls
    vote_matrix,
    pca_projection,
    kpos,                      \* position of the sweep loop in k_values (0-based)
    silhouette_scores_matrix,
    silhouette_scores_pca,
    optimal_k_matrix,
    optimal_k_pca,
    kmeans_matrix,             \* kmeans_matrix.labels_
    kmeans_pca,                \* kmeans_pca.labels_
    cluster_sizes_matrix,
    cluster_sizes_pca,
    stdout,                    \* printed lines
    calls,                     \* KMeans fits made, in order
    charts,                    \* charts shown, in order
    lib,                       \* the library's KMeans results revealed so far
    draws,                     \* random matrices the randomized PCA solver drew so far
    prev                       \* outputs of the first run, once a second one started

vars == <<argc, file, run, pc, exit_status, err, loads, vote_matrix, pca_projection,
          kpos, silhouette_scores_matrix, silhouette_scores_pca, optimal_k_matrix,
          optimal_k_pca, kmeans_matrix, kmeans_pca, cluster_sizes_matrix,
          cluster_sizes_pca, stdout, calls, charts, lib, draws, prev>>

\* ------------------------------------------------------------ helpers
Min(a, b) == IF a <= b THEN a ELSE b

Max(a, b) == IF a >= b THEN a ELSE b

\* draw: the random matrix behind a projection, 0 for data computed exactly
NoData == [repr |-> "", rows |-> 0, cols |-> 0, distinct |-> 0, draw |-> 0]

\* a size for which PCA's 'auto' policy leaves the exact solver
Large == PCAExactMax + 1

\* A loadable file: shape of module.voteMatrix and its number of distinct rows.
Matrices ==
    { [repr |-> "matrix", rows |-> n, cols |-> m, distinct |-> d, draw |-> 0] :
        n \in 1..MaxN, m \in (1..MaxM) \cup {Large}, d \in 1..MaxN }

Files ==
    {NoData} \cup
    { x \in Matrices : x.distinct \in (1..Min(MaxDistinct, x.rows)) \cup {x.rows} }

Line(l, r, kk, v) == [line |-> l, repr |-> r, k |-> kk, val |-> v]

\* the range cut down to the k the data can take (never empty)
k_values_truncated ==
    [i \in 1..Max(1, Min(KStop - KStart,
                         Min(vote_matrix.distinct, vote_matrix.rows - 1) - 1))
        |-> KStart + i - 1]

\* range(2, 9)
k_values_short == [i \in 1..(KStop - 1 - KStart) |-> KStart + i - 1]

\* k_values = range(2, 10)
k_values == [i \in 1..(KStop - KStart) |-> KStart + i - 1]

\* k_values[i], 0-based as in Python
KValueAt(i) == k_values[i + 1]

\* ------------------------------------------------------------ library
\* PCA(n_components=2).fit_transform(X): accepted iff n_components <= min(shape)
PCAAccepts(X) == n_components <= Min(X.rows, X.cols)

\* the 'auto' policy picks the randomized solver (releases from 1.5 on first send
\* tall inputs of at most 1000 columns to an exact solver; Large x Large is
\* randomized under either policy)
PCARandomized(X) ==
    /\ Max(X.rows, X.cols) > PCAExactMax
    /\ 10 * n_components < 8 * Min(X.rows, X.cols)

\* the random matrices a fit may draw: one drawn before, or a new one
PCADraws(X) == IF PCARandomized(X) THEN 1..(draws + 1) ELSE {0}

\* the projection keeps every column
PCAFitTransformAll(X, d) ==
    [repr |-> "pca", rows |-> X.rows, cols |-> X.cols, distinct |-> X.distinct,
     draw |-> d]

PCAFitTransform(X, d) ==
    [repr |-> "pca", rows |-> X.rows, cols |-> n_components, distinct |-> X.distinct,
     draw |-> d]

\* KMeans(n_clusters=k).fit_predict(data): accepted iff k <= n_samples
KMeansAccepts(data, k) == k <= data.rows

\* number of distinct labels in the fitted labels
NLabels(data, k) == Min(k, data.distinct)

\* silhouette_score(data, labels): accepted iff 2 <= n_labels <= n_samples - 1
SilhouetteAccepts(data, k) ==
    /\ 2 <= NLabels(data, k)
    /\ NLabels(data, k) <= data.rows - 1

\* numbers of clusters for which data has a silhouette value within the sweep
Scored(data) == 2..Min(KStop - 1, Min(data.distinct, data.rows - 1))

\* silhouette curves, their values -1, 0, 1 standing for points of [-1, 1]: a single peak at p, or a plateau of equal maxima from p on
Peak(S, p) == [c \in S |-> IF c = p THEN 1 ELSE IF c < p THEN 0 ELSE -1]
Plateau(S, p) == [c \in S |-> IF c >= p THEN 1 ELSE -1]

\* Label vectors with c clusters (row i is element i + 1), none empty.  The first
\* data.distinct rows are the distinct ones and the rest are copies of the last of
\* them, which share its label: one big cluster under the last label, or the
\* distinct rows dealt out from the last label down.
Heavy(data, c) == [i \in 1..data.rows |-> IF i <= c THEN i - 1 ELSE c - 1]
Dealt(data, c) ==
    [i \in 1..data.rows |-> (c - 1) - ((Min(i, data.distinct) - 1) % c)]

\* what KMeans may do with data under one seed: the silhouette of its partition for
\* each number of clusters, and the shape of its label vectors
Fits(data) ==
    { [curve |-> Peak(Scored(data), p), labeling |-> "heavy"] : p \in Scored(data) } \cup
    { [curve |-> Plateau(Scored(data), p), labeling |-> "dealt"] : p \in Scored(data) }

\* the fit of (data, seed): the one already revealed, or any fit of the data
Reveal(data, seed) ==
    IF <<data, seed>> \in DOMAIN lib
    THEN {lib[<<data, seed>>]}
    ELSE Fits(data)

\* kmeans.labels_
LabelsOf(data, k, fit) ==
    IF fit.labeling = "heavy"
    THEN Heavy(data, NLabels(data, k))
    ELSE Dealt(data, NLabels(data, k))

\* --------------------------------------------------- numpy / builtins
\* index of the last occurrence of the maximum
ArgMaxLast(s) ==
    CHOOSE i \in 0..(Len(s) - 1) :
        /\ \A j \in 0..(Len(s) - 1) : s[j + 1] <= s[i + 1]
        /\ \A j \in (i + 1)..(Len(s) - 1) : s[j + 1] < s[i + 1]

\* np.argmax: 0-based index of the first occurrence of the maximum
ArgMax(s) ==
    CHOOSE i \in 0..(Len(s) - 1) :
        /\ \A j \in 0..(Len(s) - 1) : s[j + 1] <= s[i + 1]
        /\ \A j \in 0..(i - 1) : s[j + 1] < s[i + 1]

MaxOf(S) == CHOOSE x \in S : \A y \in S : y <= x

\* counts of 1..max(labels): label 0 is dropped
BincountFromOne(labels) ==
    LET top == MaxOf({labels[i] : i \in 1..Len(labels)})
    IN  [j \in 1..top |-> Cardinality({i \in 1..Len(labels) : labels[i] = j})]

\* np.bincount(labels): counts of 0..max(labels), element j + 1 counts label j
Bincount(labels) ==
    LET top == MaxOf({labels[i] : i \in 1..Len(labels)})
    IN  [j \in 1..(top + 1) |-> Cardinality({i \in 1..Len(labels) : labels[i] = j - 1})]

Remove(s, i) == [j \in 1..(Len(s) - 1) |-> IF j < i THEN s[j] ELSE s[j + 1]]

\* the sizes in label order
Unsorted(s) == s

\* sorted(s, reverse=True)
RECURSIVE SortedReverse(_)
SortedReverse(s) ==
    IF s = <<>> THEN <<>>
    ELSE LET i == ArgMax(s) + 1
         IN  <<s[i]>> \o SortedReverse(Remove(s, i))

\* for i, size in enumerate(sorted(sizes, reverse=True)): print(f"Cluster {i+1}: {size}")
ClusterLines(r, sizes) ==
    LET sorted == SortedReverse(sizes)
    IN  [i \in 1..Len(sorted) |-> Line("cluster", r, (i - 1) + 1, sorted[i])]

\* ------------------------------------------------- kmeans_silhouette
\* KMeans(n_clusters=k, random_state=42)
KMeansCall(data, k) == [repr |-> data.repr, k |-> k, seed |-> random_state]

\* fit_predict or silhouette_score raises
KmeansSilhouetteRaises(data, k) ==
    ~KMeansAccepts(data, k) \/ ~SilhouetteAccepts(data, k)

\* score = silhouette_score(data, labels)
ScoreOf(data, k, fit) == fit.curve[NLabels(data, k)]

\* ---------------------------------------------------------------- Init
Init ==
    /\ argc \in 0..MaxArgs
    /\ file \in Files
    /\ run = 1
    /\ pc = "args"
    /\ exit_status = -1
    /\ err = ""
    /\ loads = 0
    /\ vote_matrix = NoData
    /\ pca_projection = NoData
    /\ kpos = 0
    /\ silhouette_scores_matrix = <<>>
    /\ silhouette_scores_pca = <<>>
    /\ optimal_k_matrix = 0
    /\ optimal_k_pca = 0
    /\ kmeans_matrix = <<>>
    /\ kmeans_pca = <<>>
    /\ cluster_sizes_matrix = <<>>
    /\ cluster_sizes_pca = <<>>
    /\ stdout = <<>>
    /\ calls = <<>>
    /\ charts = <<>>
    /\ lib = <<>>
    /\ draws = 0
    /\ prev = <<>>

env == <<argc, file, run, prev>>
env_draws == <<env, draws>>
data_vars == <<vote_matrix, pca_projection>>
sweep_vars == <<kpos, silhouette_scores_matrix, silhouette_scores_pca>>
select_vars == <<optimal_k_matrix, optimal_k_pca>>
final_vars == <<kmeans_matrix, kmeans_pca, cluster_sizes_matrix, cluster_sizes_pca>>

\* the failing step is tried again
RaiseRetry(kind) ==
    /\ pc' = pc
    /\ exit_status' = exit_status
    /\ err' = kind

\* an uncaught exception: traceback, exit status 1
Raise(kind) ==
    /\ pc' = "exit"
    /\ exit_status' = 1
    /\ err' = kind

\* -------------------------------------------------------------- actions
\* fewer arguments than needed (extra ones pass)
WrongArgcLess(a) == a + 1 < ExpectedArgv

\* len(sys.argv) != 2, sys.argv holding the program name and a arguments
WrongArgc(a) == a + 1 # ExpectedArgv

\* if len(sys.argv) != 2: print usage; sys.exit(1)
CheckArgs ==
    /\ pc = "args"
    /\ IF WrongArgc(argc)
       THEN /\ stdout' = Append(stdout, Line("usage", "", 0, 0))
            /\ pc' = "exit"
            /\ exit_status' = 1
            /\ err' = "UsageError"
       ELSE /\ pc' = "load"
            /\ UNCHANGED <<stdout, exit_status, err>>
    /\ UNCHANGED <<env_draws, loads, data_vars, sweep_vars, select_vars, final_vars,
                   calls, charts, lib>>

\* vote_matrix = load_vote_matrix(sys.argv[1]); print("Performing PCA projection...")
LoadVoteMatrix ==
    /\ pc = "load"
    /\ loads' = loads + 1
    /\ IF file = NoData
       THEN /\ Raise("LoadError")
            /\ UNCHANGED <<vote_matrix, stdout>>
       ELSE /\ vote_matrix' = file
            /\ stdout' = Append(stdout, Line("pca_start", "", 0, 0))
            /\ pc' = "pca"
            /\ UNCHANGED <<exit_status, err>>
    /\ UNCHANGED <<env_draws, pca_projection, sweep_vars, select_vars, final_vars,
                   calls, charts, lib>>

\* pca_projection = PCA(n_components=2).fit_transform(vote_matrix)
PerformPCA ==
    /\ pc = "pca"
    /\ IF ~PCAAccepts(vote_matrix)
       THEN /\ Raise("DimensionalityError")
            /\ UNCHANGED <<pca_projection, stdout, draws>>
       ELSE /\ \E d \in PCADraws(vote_matrix) :
                 /\ pca_projection' = PCAFitTransform(vote_matrix, d)
                 /\ draws' = Max(draws, d)
            /\ stdout' = stdout \o <<Line("pca_done", "", 0, 0),
                                     Line("sweep_start", "", 0, 0)>>
            /\ pc' = "sweep_matrix"
            /\ UNCHANGED <<exit_status, err>>
    /\ UNCHANGED <<env, loads, vote_matrix, sweep_vars, select_vars, final_vars,
                   calls, charts, lib>>

\* score_matrix, _ = kmeans_silhouette(vote_matrix, k); append; print
SweepMatrix ==
    /\ pc = "sweep_matrix"
    /\ LET k == KValueAt(kpos) IN
       /\ calls' = Append(calls, KMeansCall(vote_matrix, k))
       /\ IF KmeansSilhouetteRaises(vote_matrix, k)
          THEN /\ Raise("ClusteringError")
               /\ UNCHANGED <<silhouette_scores_matrix, stdout, lib>>
          ELSE \E fit \in Reveal(vote_matrix, KMeansCall(vote_matrix, k).seed) :
               LET score_matrix == ScoreOf(vote_matrix, k, fit) IN
               /\ lib' = (<<vote_matrix, KMeansCall(vote_matrix, k).seed>> :> fit) @@ lib
               /\ silhouette_scores_matrix' = Append(silhouette_scores_matrix, score_matrix)
               /\ stdout' = Append(stdout, Line("score", "matrix", k, score_matrix))
               /\ pc' = "sweep_pca"
               /\ UNCHANGED <<exit_status, err>>
    /\ UNCHANGED <<env_draws, loads, data_vars, kpos, silhouette_scores_pca, select_vars,
                   final_vars, charts>>

\* score_pca, _ = kmeans_silhouette(pca_projection, k); append; print; next k
SweepPca ==
    /\ pc = "sweep_pca"
    /\ LET k == KValueAt(kpos) IN
       /\ calls' = Append(calls, KMeansCall(pca_projection, k))
       /\ IF KmeansSilhouetteRaises(pca_projection, k)
          THEN /\ Raise("ClusteringError")
               /\ UNCHANGED <<silhouette_scores_pca, stdout, lib, kpos>>
          ELSE \E fit \in Reveal(pca_projection, KMeansCall(pca_projection, k).seed) :
               LET score_pca == ScoreOf(pca_projection, k, fit) IN
               /\ lib' = (<<pca_projection, KMeansCall(pca_projection, k).seed>> :> fit) @@ lib
               /\ silhouette_scores_pca' = Append(silhouette_scores_pca, score_pca)
               /\ stdout' = Append(stdout, Line("score", "pca", k, score_pca))
               /\ kpos' = kpos + 1
               /\ pc' = IF kpos + 1 < Len(k_values) THEN "sweep_matrix" ELSE "select"
               /\ UNCHANGED <<exit_status, err>>
    /\ UNCHANGED <<env_draws, loads, data_vars, silhouette_scores_matrix, select_vars,
                   final_vars, charts>>

\* optimal_k_* = k_values[np.argmax(silhouette_scores_*)]; print both
SelectOptimal ==
    /\ pc = "select"
    /\ optimal_k_matrix' = KValueAt(ArgMax(silhouette_scores_matrix))
    /\ optimal_k_pca' = KValueAt(ArgMax(silhouette_scores_pca))
    /\ stdout' = stdout \o <<Line("optimal", "matrix", optimal_k_matrix', 0),
                             Line("optimal", "pca", optimal_k_pca', 0),
                             Line("final_start", "", 0, 0)>>
    /\ pc' = "final_matrix"
    /\ UNCHANGED <<env_draws, exit_status, err, loads, data_vars, sweep_vars, final_vars,
                   calls, charts, lib>>

\* _, kmeans_matrix = kmeans_silhouette(vote_matrix, optimal_k_matrix)
FinalMatrix ==
    /\ pc = "final_matrix"
    /\ LET k == optimal_k_matrix IN
       /\ calls' = Append(calls, KMeansCall(vote_matrix, k))
       /\ IF KmeansSilhouetteRaises(vote_matrix, k)
          THEN /\ Raise("ClusteringError")
               /\ UNCHANGED <<kmeans_matrix, stdout, lib>>
          ELSE \E fit \in Reveal(vote_matrix, KMeansCall(vote_matrix, k).seed) :
               /\ lib' = (<<vote_matrix, KMeansCall(vote_matrix, k).seed>> :> fit) @@ lib
               /\ kmeans_matrix' = LabelsOf(vote_matrix, k, fit)
               /\ stdout' = Append(stdout, Line("final_done", "matrix", 0, 0))
               /\ pc' = "final_pca"
               /\ UNCHANGED <<exit_status, err>>
    /\ UNCHANGED <<env_draws, loads, data_vars, sweep_vars, select_vars, kmeans_pca,
                   cluster_sizes_matrix, cluster_sizes_pca, charts>>

\* _, kmeans_pca = kmeans_silhouette(pca_projection, optimal_k_pca)
FinalPca ==
    /\ pc = "final_pca"
    /\ LET k == optimal_k_pca IN
       /\ calls' = Append(calls, KMeansCall(pca_projection, k))
       /\ IF KmeansSilhouetteRaises(pca_projection, k)
          THEN /\ Raise("ClusteringError")
               /\ UNCHANGED <<kmeans_pca, stdout, lib>>
          ELSE \E fit \in Reveal(pca_projection, KMeansCall(pca_projection, k).seed) :
               /\ lib' = (<<pca_projection, KMeansCall(pca_projection, k).seed>> :> fit) @@ lib
               /\ kmeans_pca' = LabelsOf(pca_projection, k, fit)
               /\ stdout' = Append(stdout, Line("final_done", "pca", 0, 0))
               /\ pc' = "report"
               /\ UNCHANGED <<exit_status, err>>
    /\ UNCHANGED <<env_draws, loads, data_vars, sweep_vars, select_vars, kmeans_matrix,
                   cluster_sizes_matrix, cluster_sizes_pca, charts>>

\* cluster_sizes_* = np.bincount(kmeans_*.labels_); print both lists, big to small
ReportSizes ==
    /\ pc = "report"
    /\ cluster_sizes_matrix' = Bincount(kmeans_matrix)
    /\ cluster_sizes_pca' = Bincount(kmeans_pca)
    /\ stdout' = stdout \o <<Line("sizes_header", "matrix", 0, 0)>>
                        \o ClusterLines("matrix", cluster_sizes_matrix')
                        \o <<Line("sizes_header", "pca", 0, 0)>>
                        \o ClusterLines("pca", cluster_sizes_pca')
    /\ pc' = "plot_scores"
    /\ UNCHANGED <<env_draws, exit_status, err, loads, data_vars, sweep_vars, select_vars,
                   kmeans_matrix, kmeans_pca, calls, charts, lib>>

Chart(kind, xs, m, p, c) == [kind |-> kind, x |-> xs, matrix |-> m, pca |-> p, c |-> c]

\* line chart of silhouette score against k, one line per representation
PlotScores ==
    /\ pc = "plot_scores"
    /\ charts' = Append(charts, Chart("line", k_values, silhouette_scores_matrix,
                                      silhouette_scores_pca, <<>>))
    /\ pc' = "plot_projection"
    /\ UNCHANGED <<env_draws, exit_status, err, loads, data_vars, sweep_vars, select_vars,
                   final_vars, stdout, calls, lib>>

\* coloured by the matrix clustering
ScatterColoursMatrix == kmeans_matrix

\* c=kmeans_pca.labels_
ScatterColours == kmeans_pca

\* scatter of the projection coloured by kmeans_pca.labels_; end of the script
PlotProjection ==
    /\ pc = "plot_projection"
    /\ charts' = Append(charts, Chart("scatter", <<>>, <<>>, <<>>, ScatterColours))
    /\ pc' = "done"
    /\ exit_status' = 0
    /\ UNCHANGED <<env_draws, err, loads, data_vars, sweep_vars, select_vars,
                   final_vars, stdout, calls, lib>>

\* what a run leaves behind, timings aside
Outputs ==
    [scores_matrix |-> silhouette_scores_matrix,
     scores_pca |-> silhouette_scores_pca,
     optimal_k_matrix |-> optimal_k_matrix,
     optimal_k_pca |-> optimal_k_pca,
     sizes_matrix |-> SortedReverse(cluster_sizes_matrix),
     sizes_pca |-> SortedReverse(cluster_sizes_pca)]

\* the script is started again with the same arguments on the same file
Rerun ==
    /\ pc = "done"
    /\ run = 1
    /\ run' = 2
    /\ prev' = <<Outputs>>
    /\ pc' = "args"
    /\ exit_status' = -1
    /\ err' = ""
    /\ loads' = 0
    /\ vote_matrix' = NoData
    /\ pca_projection' = NoData
    /\ kpos' = 0
    /\ silhouette_scores_matrix' = <<>>
    /\ silhouette_scores_pca' = <<>>
    /\ optimal_k_matrix' = 0
    /\ optimal_k_pca' = 0
    /\ kmeans_matrix' = <<>>
    /\ kmeans_pca' = <<>>
    /\ cluster_sizes_matrix' = <<>>
    /\ cluster_sizes_pca' = <<>>
    /\ stdout' = <<>>
    /\ calls' = <<>>
    /\ charts' = <<>>
    /\ UNCHANGED <<argc, file, lib, draws>>

Next ==
    \/ CheckArgs
    \/ LoadVoteMatrix
    \/ PerformPCA
    \/ SweepMatrix
    \/ SweepPca
    \/ SelectOptimal
    \/ FinalMatrix
    \/ FinalPca
    \/ ReportSizes
    \/ PlotScores
    \/ PlotProjection
    \/ Rerun

Spec == Init /\ [][Next]_vars

\* ---------------------------------------------------------------- claims
IsScoreLine(l) == l.line = "score"
IsMatrixScoreLine(l) == l.line = "score" /\ l.repr = "matrix"
IsPcaScoreLine(l) == l.line = "score" /\ l.repr = "pca"
IsMatrixClusterLine(l) == l.line = "cluster" /\ l.repr = "matrix"
IsPcaClusterLine(l) == l.line = "cluster" /\ l.repr = "pca"
IsResultLine(l) == l.line \in {"optimal", "final_start", "final_done", "sizes_header", "cluster"}

AfterSweep == {"select", "final_matrix", "final_pca", "report", "plot_scores",
               "plot_projection", "done"}
AfterSelect == AfterSweep \ {"select"}
AfterReport == {"plot_scores", "plot_projection", "done"}

RECURSIVE SumSeq(_)
SumSeq(s) == IF s = <<>> THEN 0 ELSE Head(s) + SumSeq(Tail(s))

Count(s, v) == Cardinality({i \in 1..Len(s) : s[i] = v})

\* kk is the smallest k of 2..9 whose score is the maximum of scores
IsFirstBest(kk, scores) ==
    /\ kk \in 2..9
    /\ \A j \in 2..9 : scores[j - 1] <= scores[kk - 1]
    /\ \A j \in 2..(kk - 1) : scores[j - 1] < scores[kk - 1]

\* C1: after the selection, each of optimal_k_matrix and optimal_k_pca lies in 2..9
\* and is the smallest k whose score is the maximum of its own 8-entry sequence.
C1_SelectorFirstMaximum ==
    (pc \in AfterSelect) =>
        /\ Len(silhouette_scores_matrix) = 8
        /\ Len(silhouette_scores_pca) = 8
        /\ IsFirstBest(optimal_k_matrix, silhouette_scores_matrix)
        /\ IsFirstBest(optimal_k_pca, silhouette_scores_pca)

\* a selection among tied maxima, the two representations choosing different k
C1_Witness ==
    /\ pc = "done"
    /\ optimal_k_matrix > 2
    /\ optimal_k_matrix # optimal_k_pca
    /\ \E j \in (optimal_k_matrix + 1)..9 :
         silhouette_scores_matrix[j - 1] = silhouette_scores_matrix[optimal_k_matrix - 1]

\* the i-th entry of scores is the score printed for k = 2 + i, and lies in [-1, 1]
SweepRecord(scores, lines) ==
    /\ Len(scores) <= 8
    /\ Len(lines) = Len(scores)
    /\ \A i \in 0..(Len(scores) - 1) :
         /\ lines[i + 1].k = 2 + i
         /\ lines[i + 1].val = scores[i + 1]
         /\ -1 <= scores[i + 1]
         /\ scores[i + 1] <= 1

\* matrix score then pca score at each k, 8 pairs once the sweep is over, no failure
SweepCompletes ==
    /\ SweepRecord(silhouette_scores_matrix, SelectSeq(stdout, IsMatrixScoreLine))
    /\ SweepRecord(silhouette_scores_pca, SelectSeq(stdout, IsPcaScoreLine))
    /\ Len(silhouette_scores_pca) <= Len(silhouette_scores_matrix)
    /\ Len(silhouette_scores_matrix) <= Len(silhouette_scores_pca) + 1
    /\ \A j \in 1..Len(SelectSeq(stdout, IsScoreLine)) :
         SelectSeq(stdout, IsScoreLine)[j].repr = IF j % 2 = 1 THEN "matrix" ELSE "pca"
    /\ pc # "exit"
    /\ (pc \in AfterSweep) =>
         Len(silhouette_scores_matrix) = 8 /\ Len(silhouette_scores_pca) = 8

\* C2 as stated: every input with more than 9 rows and at least 2 columns completes
\* the sweep with 8 score pairs in ascending k, every score in [-1, 1].
C2_Original ==
    (vote_matrix.rows > 9 /\ vote_matrix.cols >= 2) => SweepCompletes

\* C2 amended: every input with more than 9 rows, at least 2 columns and at least
\* two distinct rows completes the sweep with 8 score pairs in ascending k, matrix
\* score then pca score at each k, every score in [-1, 1].
C2_SweepEightPairs ==
    (vote_matrix.rows > 9 /\ vote_matrix.cols >= 2 /\ vote_matrix.distinct >= 2)
        => SweepCompletes

C2_Witness ==
    /\ pc = "select"
    /\ vote_matrix.rows > 9
    /\ vote_matrix.distinct \in 2..8
    /\ Len(silhouette_scores_matrix) = 8
    /\ Len(silhouette_scores_pca) = 8

\* C3: with any number of arguments other than one the script prints the usage line
\* and exits with status 1 without loading, PCA, k-means or charts; with exactly one
\* it prints no usage line and calls the loader.
C3_UsageOnWrongArgumentCount ==
    /\ (argc # 1) =>
         /\ pc \in {"args", "exit"}
         /\ loads = 0
         /\ vote_matrix = NoData
         /\ pca_projection = NoData
         /\ calls = <<>>
         /\ charts = <<>>
         /\ (pc = "exit") =>
              /\ stdout = <<Line("usage", "", 0, 0)>>
              /\ exit_status = 1
    /\ (argc = 1) =>
         /\ \A i \in 1..Len(stdout) : stdout[i].line # "usage"
         /\ (pc \notin {"args", "load"}) => loads = 1

C3_Witness ==
    /\ argc = 2
    /\ pc = "exit"
    /\ exit_status = 1
    /\ stdout = <<Line("usage", "", 0, 0)>>

\* C4: with fewer rows than the largest k (5 rows among them) the sweep, once
\* entered, walks k upwards from 2 without skipping any and can only end in a
\* ClusteringError: no selection, no final clustering, no chart.
C4_SmallInputFailsInSweep ==
    (vote_matrix.rows \in 1..8 /\ pca_projection # NoData) =>
        /\ pc \in {"sweep_matrix", "sweep_pca", "exit"}
        /\ (pc = "exit") => err = "ClusteringError"
        /\ \A i \in 1..Len(calls) : calls[i].k = 2 + ((i - 1) \div 2)
        /\ Len(silhouette_scores_matrix) < 8
        /\ optimal_k_matrix = 0
        /\ optimal_k_pca = 0
        /\ kmeans_matrix = <<>>
        /\ kmeans_pca = <<>>
        /\ charts = <<>>
        /\ \A i \in 1..Len(stdout) : ~IsResultLine(stdout[i])

C4_Witness ==
    /\ vote_matrix.rows = 5
    /\ vote_matrix.distinct = 5
    /\ pc = "exit"
    /\ err = "ClusteringError"
    /\ Len(calls) > 2

\* nothing of the result is reported and nothing selected; the failing fit was the
\* last one and no fit was made twice
AbortedInSweep ==
    /\ pc = "exit"
    /\ exit_status = 1
    /\ optimal_k_matrix = 0
    /\ optimal_k_pca = 0
    /\ kmeans_matrix = <<>>
    /\ kmeans_pca = <<>>
    /\ cluster_sizes_matrix = <<>>
    /\ cluster_sizes_pca = <<>>
    /\ charts = <<>>
    /\ \A i \in 1..Len(stdout) : ~IsResultLine(stdout[i])
    /\ Len(calls) = Len(silhouette_scores_matrix) + Len(silhouette_scores_pca) + 1
    /\ \A i, j \in 1..Len(calls) : (i < j) => calls[i] # calls[j]

\* C5 as stated: a failure at some k aborts at once, with no retry, no fallback k,
\* and nothing reported for the candidates evaluated before the failure.
C5_Original ==
    (err = "ClusteringError") =>
        /\ AbortedInSweep
        /\ \A i \in 1..Len(stdout) : ~IsScoreLine(stdout[i])

\* C5 amended: a failure at some k aborts at once, with no retry and no fallback k;
\* no selection, cluster size or chart is reported, and standard output holds
\* exactly the score lines of the candidates evaluated before the failure.
C5_AbortWithoutSelection ==
    (err = "ClusteringError") =>
        /\ AbortedInSweep
        /\ Len(SelectSeq(stdout, IsScoreLine)) =
             Len(silhouette_scores_matrix) + Len(silhouette_scores_pca)

C5_Witness ==
    /\ err = "ClusteringError"
    /\ Len(silhouette_scores_matrix) >= 2
    /\ Len(SelectSeq(stdout, IsScoreLine)) >= 4

\* labels give each of the rows one label of 0..k-1; sizes count them and sum to rows
PartitionOK(labels, sizes, k, data) ==
    /\ (labels # <<>>) =>
         /\ Len(labels) = data.rows
         /\ \A i \in 1..Len(labels) : labels[i] \in 0..(k - 1)
    /\ (sizes # <<>>) =>
         /\ SumSeq(sizes) = data.rows
         /\ Len(sizes) <= k
         /\ \A j \in 1..Len(sizes) : sizes[j] = Count(labels, j - 1)
         /\ Cardinality({j \in 1..Len(sizes) : sizes[j] > 0}) <= k

\* C6: the final labels of each representation give every row one label of
\* 0..k-1 for its selected k, so at most k groups are non-empty and the computed
\* cluster sizes sum to the number of rows.
C6_FinalLabelsPartitionRows ==
    /\ PartitionOK(kmeans_matrix, cluster_sizes_matrix, optimal_k_matrix, vote_matrix)
    /\ PartitionOK(kmeans_pca, cluster_sizes_pca, optimal_k_pca, pca_projection)

C6_Witness ==
    /\ pc = "done"
    /\ optimal_k_matrix >= 3
    /\ Len(cluster_sizes_matrix) = optimal_k_matrix
    /\ SumSeq(cluster_sizes_pca) = vote_matrix.rows

\* C7: a second run on the same vote matrix ends with the same score sequences, the
\* same optimal k values and the same descending cluster-size lists as the first.
C7_SecondRunIdentical ==
    (run = 2 /\ pc = "done") => Outputs = prev[1]

\* the projection is made or refused as stated for the condition refuse
ReducerOutcome(refuse) ==
    (vote_matrix # NoData) =>
        IF refuse
        THEN \/ pc = "pca"
             \/ /\ pc = "exit"
                /\ err = "DimensionalityError"
                /\ calls = <<>>
                /\ pca_projection = NoData
        ELSE (pc # "pca") =>
                /\ err # "DimensionalityError"
                /\ pca_projection.rows = vote_matrix.rows
                /\ pca_projection.cols = 2

\* C8 as stated: PCA fails, before any k-means call, whenever the matrix has fewer
\* than 2 columns or fewer rows than columns + 1; otherwise the projection has the
\* matrix's rows and 2 columns.
C8_Original ==
    ReducerOutcome(vote_matrix.cols < 2 \/ vote_matrix.rows < vote_matrix.cols + 1)

\* C8 amended: PCA fails, before any k-means call, whenever the matrix has fewer
\* than 2 columns or fewer than 2 rows; otherwise the projection has the matrix's
\* rows and 2 columns.
C8_ReducerPrecondition ==
    ReducerOutcome(vote_matrix.cols < 2 \/ vote_matrix.rows < 2)

C8_Witness ==
    /\ vote_matrix.rows = 1
    /\ vote_matrix.cols >= 2
    /\ pc = "exit"
    /\ err = "DimensionalityError"

\* the cluster lines of one representation: k of them, numbered 1..k, sizes
\* non-increasing, the sizes being those of the final assignment
ReportOK(lines, sizes, k) ==
    /\ Len(lines) = k
    /\ \A i \in 1..Len(lines) : lines[i].k = i
    /\ \A i \in 1..(Len(lines) - 1) : lines[i].val >= lines[i + 1].val
    /\ \A i \in 1..Len(lines) : Count([j \in 1..Len(lines) |-> lines[j].val], lines[i].val)
                                  = Count(sizes, lines[i].val)

\* C9: for each representation the cluster sizes are printed in non-increasing
\* order on exactly k lines numbered 1..k, k its selected k; the number is the rank
\* by size.
C9_SizesPrintedBigToSmall ==
    (pc \in AfterReport) =>
        /\ ReportOK(SelectSeq(stdout, IsMatrixClusterLine), cluster_sizes_matrix,
                    optimal_k_matrix)
        /\ ReportOK(SelectSeq(stdout, IsPcaClusterLine), cluster_sizes_pca,
                    optimal_k_pca)

\* a report whose first line is not the size of label 0
C9_Witness ==
    /\ pc = "done"
    /\ optimal_k_matrix >= 3
    /\ SelectSeq(stdout, IsMatrixClusterLine)[1].val # cluster_sizes_matrix[1]
    /\ SelectSeq(stdout, IsMatrixClusterLine)[1].val >
         SelectSeq(stdout, IsMatrixClusterLine)[optimal_k_matrix].val

\* the 16 fits of the sweep: matrix then pca for k = 2..9, seed 42
SweepCalls ==
    [i \in 1..16 |-> [repr |-> IF i % 2 = 1 THEN "matrix" ELSE "pca",
                      k |-> 2 + ((i - 1) \div 2), seed |-> 42]]

\* C10: a successful run makes the 16 fits of the sweep, then one fit of the matrix
\* with optimal_k_matrix and one of the projection with optimal_k_pca, 18 in all
\* with seed 42, and the scatter plot is coloured by the projection's final labels.
C10_FinalClusteringCalls ==
    (pc = "done") =>
        /\ calls = SweepCalls \o
                   <<[repr |-> "matrix", k |-> optimal_k_matrix, seed |-> 42],
                     [repr |-> "pca", k |-> optimal_k_pca, seed |-> 42]>>
        /\ Len(charts) = 2
        /\ charts[2].kind = "scatter"
        /\ charts[2].c = LabelsOf(pca_projection, optimal_k_pca, lib[<<pca_projection, 42>>])

\* the two final fits use different k and give different labels
C10_Witness ==
    /\ pc = "done"
    /\ optimal_k_matrix # optimal_k_pca
    /\ kmeans_matrix # kmeans_pca
    /\ Len(calls) = 18

====
